---- MODULE Spec2Model ----
(***************************************************************************)
(* A model of helpers.py: get_imgs (image store), align_and_sub_liq        *)
(* (alignment and liquid subtraction), save_as_gif and save_as_pngs        *)
(* (exporters), over a small file system.                                  *)
(*                                                                         *)
(* Strings are sequences of one-character strings, a path is the sequence  *)
(* of its parts, an optional argument is <<>> (None) or <<v>>.             *)
(***************************************************************************)
EXTENDS Integers, Sequences, FiniteSets, TLC

VARIABLES fs, sess, call, ret, prev

vars == <<fs, sess, call, ret, prev>>

(***************************************************************************)
(* Bounds of the model.                                                    *)
(***************************************************************************)
MaxFiles == 10
MaxStack == 11
MaxSmallStack == 2
MaxFrames == 3
MaxH == 3
MaxW == 2
MaxPix == 3
MaxLevel == 1

(***************************************************************************)
(* Python helpers.                                                         *)
(***************************************************************************)
None == <<>>

Some(v) == <<v>>

Val(o) == o[1]

Abs(x) == IF x < 0 THEN -x ELSE x

Min2(a, b) == IF a < b THEN a ELSE b

Max2(a, b) == IF a > b THEN a ELSE b

\* floor(a / b) for b > 0
FloorDiv(a, b) == IF a >= 0 THEN a \div b ELSE -((-a + b - 1) \div b)

\* ceil(a / b) for b > 0
CeilDiv(a, b) == -FloorDiv(-a, b)

\* round(d / n) with a tie rounded up
PyRoundHalfUp(d, n) ==
    LET dd == IF n < 0 THEN -d ELSE d
        nn == Abs(n)
        q == FloorDiv(dd, nn)
    IN  IF 2 * (dd - q * nn) < nn THEN q ELSE q + 1

\* Python 3 round(d / n) of two ints, n # 0: to the nearest integer, a tie to
\* the even one.
PyRound(d, n) ==
    LET dd == IF n < 0 THEN -d ELSE d
        nn == Abs(n)
        q == FloorDiv(dd, nn)
        r2 == 2 * (dd - q * nn)
    IN  IF r2 < nn THEN q
        ELSE IF r2 > nn THEN q + 1
        ELSE IF q % 2 = 0 THEN q ELSE q + 1

\* len(np.arange(start, stop, step)), step # 0
ArangeLen(start, stop, step) ==
    IF step > 0 THEN Max2(0, CeilDiv(stop - start, step))
    ELSE Max2(0, CeilDiv(start - stop, -step))

\* np.arange(start, stop, step), step # 0
Arange(start, stop, step) ==
    [k \in 1..ArangeLen(start, stop, step) |-> start + (k - 1) * step]

DigitChars == <<"0", "1", "2", "3", "4", "5", "6", "7", "8", "9">>

\* str(n) for an int n >= 0
RECURSIVE Str(_)
Str(n) == IF n < 10 THEN <<DigitChars[n + 1]>>
          ELSE Str(n \div 10) \o <<DigitChars[(n % 10) + 1]>>

\* s.zfill(width) for a string of digits
RECURSIVE ZFill(_, _)
ZFill(s, width) == IF Len(s) >= width THEN s ELSE ZFill(<<"0">> \o s, width)

\* ord(c) of the characters the model uses
CharOrd(c) ==
    CASE c = "." -> 46
      [] c = "0" -> 48 [] c = "1" -> 49 [] c = "2" -> 50 [] c = "3" -> 51
      [] c = "4" -> 52 [] c = "5" -> 53 [] c = "6" -> 54 [] c = "7" -> 55
      [] c = "8" -> 56 [] c = "9" -> 57
      [] c = "_" -> 95
      [] c = "a" -> 97 [] c = "d" -> 100 [] c = "f" -> 102 [] c = "g" -> 103
      [] c = "i" -> 105 [] c = "n" -> 110 [] c = "p" -> 112 [] c = "t" -> 116

\* a < b for two strings (code point order)
RECURSIVE StrLess(_, _)
StrLess(a, b) ==
    IF a = <<>> THEN b # <<>>
    ELSE IF b = <<>> THEN FALSE
    ELSE IF Head(a) = Head(b) THEN StrLess(Tail(a), Tail(b))
    ELSE CharOrd(Head(a)) < CharOrd(Head(b))

\* list.sort() of a set of distinct names
RECURSIVE SortNames(_)
SortNames(S) ==
    IF S = {} THEN <<>>
    ELSE LET m == CHOOSE x \in S : \A y \in S \ {x} : StrLess(x, y)
         IN  <<m>> \o SortNames(S \ {m})

\* s.endswith(t)
EndsWith(s, t) ==
    /\ Len(s) >= Len(t)
    /\ SubSeq(s, Len(s) - Len(t) + 1, Len(s)) = t

\* the index of the last "." of a name, 0 when it has none
LastDot(s) ==
    LET D == {k \in 1..Len(s) : s[k] = "."}
    IN  IF D = {} THEN 0 ELSE CHOOSE k \in D : \A j \in D : j <= k

\* PurePath.stem of a final component: the name without its last suffix (a
\* leading or a trailing dot starts no suffix)
Stem(name) ==
    LET k == LastDot(name)
    IN  IF k > 1 /\ k < Len(name) THEN SubSeq(name, 1, k - 1) ELSE name

(***************************************************************************)
(* The file system: a function from the paths that exist to what is there. *)
(***************************************************************************)
DirEntry == [kind |-> "dir", form |-> "dir", idx |-> 0]

FileEntry(form, idx) == [kind |-> "file", form |-> form, idx |-> idx]

Exists(f, p) == p \in DOMAIN f

IsDir(f, p) == p \in DOMAIN f /\ f[p].kind = "dir"

\* the names of the entries of directory p
Listing(f, p) ==
    {q[Len(q)] : q \in {x \in DOMAIN f : Len(x) = Len(p) + 1
                                         /\ SubSeq(x, 1, Len(p)) = p}}

\* f with the entries of g written over it
Overlay(f, g) ==
    [p \in DOMAIN f \cup DOMAIN g |-> IF p \in DOMAIN g THEN g[p] ELSE f[p]]

EmptyFs == [p \in {} |-> DirEntry]

DotGif == <<".", "g", "i", "f">>

DotPng == <<".", "p", "n", "g">>

Tif == <<"t", "i", "f">>

Png == <<"p", "n", "g">>

(***************************************************************************)
(* get_imgs                                                                *)
(***************************************************************************)
\* line 99-100: a leading period of img_suffix is dropped
NormSuffix(img_suffix) ==
    IF Head(img_suffix) = "." THEN Tail(img_suffix) ELSE img_suffix

\* line 102-103: the sorted names matching *.<suffix>
ImgPaths(f, dir, img_suffix) ==
    SortNames({n \in Listing(f, dir) :
                   EndsWith(n, <<".">> \o NormSuffix(img_suffix))})

\* line 104-111: start, stop and step; step is None when the division by
\* n_imgs = 0 raises
SelStart(img_start) == IF img_start = None THEN 0 ELSE Val(img_start)

SelStop(img_stop, F) == IF img_stop = None THEN F ELSE Val(img_stop)

SelStep(start, stop, img_step, n_imgs) ==
    IF n_imgs # None
    THEN IF Val(n_imgs) = 0 THEN None
         ELSE Some(PyRound(stop - start, Val(n_imgs)))
    ELSE IF img_step = None THEN Some(1) ELSE img_step

\* img_paths[n] of a list of F paths: a negative n counts from the end
IndexOk(n, F) == -F <= n /\ n < F

PyIndex(n, F) == IF n < 0 THEN F + n + 1 ELSE n + 1

GetImgsArgs(dir, img_start, img_stop, img_step, n_imgs, img_suffix) ==
    [dir |-> dir, img_start |-> img_start, img_stop |-> img_stop,
     img_step |-> img_step, n_imgs |-> n_imgs, img_suffix |-> img_suffix]

GetImgsRaise(a, what, globbed, ndecoded) ==
    [op |-> "get_imgs", args |-> a, outcome |-> what, globbed |-> globbed,
     ndecoded |-> ndecoded, nfiles |-> 0, step |-> None, nums |-> <<>>,
     stack |-> <<>>]

Idle == [op |-> "idle", pc |-> "idle"]

NoRet == [op |-> "none", outcome |-> "none"]

\* the call is entered
CallGetImgs(a) ==
    /\ call = Idle
    /\ call' = [op |-> "get_imgs", pc |-> "check", args |-> a]
    /\ sess' = [sess EXCEPT !.n = @ + 1]
    /\ UNCHANGED <<fs, ret, prev>>

\* the directory check left out
DirCheckSkipped(f, dir) == TRUE

\* line 95-97: whether the call goes on after the directory check
DirCheckPasses(f, dir) == IsDir(f, dir)

\* line 95-97
GetImgsCheck ==
    /\ call.op = "get_imgs" /\ call.pc = "check"
    /\ IF DirCheckPasses(fs, call.args.dir)
       THEN /\ call' = [call EXCEPT !.pc = "load"]
            /\ UNCHANGED <<ret, prev>>
       ELSE /\ call' = Idle
            /\ ret' = GetImgsRaise(call.args, "NotFound", FALSE, 0)
            /\ prev' = ret
    /\ UNCHANGED <<fs, sess>>

\* line 114: iio.imread decodes a file unless it is corrupt or cut short
Decodes(e) == e.kind = "file" /\ e.form \in {"raw", "rendered"}

\* line 98-121
GetImgsResult(f, a) ==
    LET img_paths == ImgPaths(f, a.dir, a.img_suffix)
        F == Len(img_paths)
        start == SelStart(a.img_start)
        stop == SelStop(a.img_stop, F)
        step == SelStep(start, stop, a.img_step, a.n_imgs)
    IN  IF step = None \/ Val(step) = 0
        THEN GetImgsRaise(a, "ZeroDivisionError", TRUE, 0)
        ELSE
        LET img_nums == Arange(start, stop, Val(step))
            bad == {k \in 1..Len(img_nums) : ~IndexOk(img_nums[k], F)}
            first_bad == IF bad = {} THEN 0
                         ELSE CHOOSE k \in bad : \A j \in bad : k <= j
            undec == {k \in 1..Len(img_nums) :
                         /\ first_bad = 0 \/ k < first_bad
                         /\ ~Decodes(f[a.dir \o
                                <<img_paths[PyIndex(img_nums[k], F)]>>])}
            decode_fail == IF undec = {} THEN 0
                           ELSE CHOOSE k \in undec : \A j \in undec : k <= j
        IN  IF decode_fail > 0
            THEN GetImgsRaise(a, "DecodeError", TRUE, decode_fail - 1)
            ELSE IF first_bad > 0
            THEN GetImgsRaise(a, "IndexError", TRUE, first_bad - 1)
            ELSE IF Len(img_nums) = 0
            THEN GetImgsRaise(a, "EmptyStackError", TRUE, 0)
            ELSE [op |-> "get_imgs", args |-> a, outcome |-> "ok",
                  globbed |-> TRUE, ndecoded |-> Len(img_nums), nfiles |-> F,
                  step |-> step, nums |-> img_nums,
                  stack |-> [k \in 1..Len(img_nums) |->
                      f[a.dir \o <<img_paths[PyIndex(img_nums[k], F)]>>]]]

GetImgsLoad ==
    /\ call.op = "get_imgs" /\ call.pc = "load"
    /\ ret' = GetImgsResult(fs, call.args)
    /\ prev' = ret
    /\ call' = Idle
    /\ UNCHANGED <<fs, sess>>

(***************************************************************************)
(* SpecLoad: get_imgs on a directory of F files f00.tif, f01.tif, ...      *)
(***************************************************************************)
LoadDir == <<<<"d">>>>

TifName(i) == <<"f">> \o ZFill(Str(i), 2) \o <<".">> \o Tif

\* a directory of F files, those of the indices in corrupt undecodable
TifDir(F, corrupt) ==
    [p \in {LoadDir} \cup {LoadDir \o <<TifName(i)>> : i \in 0..(F - 1)} |->
        IF p = LoadDir THEN DirEntry
        ELSE LET i == CHOOSE j \in 0..(F - 1) : p = LoadDir \o <<TifName(j)>>
             IN  FileEntry(IF i \in corrupt THEN "corrupt" ELSE "raw", i)]

Opt(S) == {None} \cup {Some(v) : v \in S}

LoadStarts == Opt(-1..2)

LoadStops == Opt(-1..(MaxFiles + 1))

LoadSteps == Opt(-1..3)

LoadCounts == Opt(0..5)

InitLoad ==
    /\ fs \in {EmptyFs} \cup {TifDir(F, {}) : F \in 0..MaxFiles}
                     \cup {TifDir(F, {2}) : F \in 3..MaxFiles}
    /\ \E s \in LoadStarts, e \in LoadStops, st \in LoadSteps, n \in LoadCounts :
          sess = [kind |-> "load", n |-> 0,
                  args |-> GetImgsArgs(LoadDir, s, e, st, n, Tif)]
    /\ call = Idle
    /\ ret = NoRet
    /\ prev = NoRet

NextLoad ==
    \/ sess.n = 0 /\ CallGetImgs(sess.args)
    \/ GetImgsCheck
    \/ GetImgsLoad

SpecLoad == InitLoad /\ [][NextLoad]_vars

(***************************************************************************)
(* align_and_sub_liq                                                       *)
(*                                                                         *)
(* An intensity is an integer number of 1/PerMille of a grey level step;   *)
(* the float 1.0 is One. A percentile q is given in 1/PerMille (the        *)
(* default clip [0.1, 99.9] is <<1, 999>>). The corrected stack is kept as *)
(* its shape and its values in C order. registration.phase_cross_          *)
(* correlation is the environment's: it answers with a whole-number shift  *)
(* of at most half the axis, the zero shift for a frame against itself and *)
(* the same shift for the same two frames.                                 *)
(***************************************************************************)
PerMille == 1000

One == MaxLevel * PerMille

Offsets(size) == -(size \div 2)..(size \div 2)

\* a[start:stop] of an axis of length L: the bounds Python clamps them to
SliceIdx(x, L) == IF x < 0 THEN Max2(x + L, 0) ELSE Min2(x, L)

SliceLen(start, stop, L) == Max2(0, SliceIdx(stop, L) - SliceIdx(start, L))

\* the allocation with the signs of the offset kept
AllocShapeSigned(N, H, W, R, C) == <<N, H - R, W - C>>

\* line 23-26: the shape np.zeros allocates

AllocShape(N, H, W, R, C) == <<N, H - Abs(R), W - Abs(C)>>

\* line 34-37: the shape of img_liq
LiqShape(H, W, R, C) ==
    <<SliceLen(0, H - Abs(R), H), SliceLen(0, W - Abs(C), W)>>

\* line 38-43: the bounds asked of frame i, <<row start, row stop, column
\* start, column stop>>
CropBounds(H, W, R, C, r, c) ==
    <<Abs(r), H - (Abs(R) - Abs(r)), Abs(c), W - (Abs(C) - Abs(c))>>

\* line 38-43: the shape of img_i
CropShape(H, W, R, C, r, c) ==
    LET b == CropBounds(H, W, R, C, r, c)
    IN  <<SliceLen(b[1], b[2], H), SliceLen(b[3], b[4], W)>>

\* numpy broadcasting of two 2-D shapes (line 44, img_i - img_liq)
Broadcastable(a, b) == \A d \in 1..2 : a[d] = b[d] \/ a[d] = 1 \/ b[d] = 1

BroadcastShape(a, b) == [d \in 1..2 |-> IF a[d] = 1 THEN b[d] ELSE a[d]]

\* numpy assignment of a value of shape src into a slot of shape dst (line 44)
AssignableTo(src, dst) == \A d \in 1..2 : src[d] = dst[d] \/ src[d] = 1

\* line 44: whether the subtraction and the store of frame i go through
FrameFits(H, W, R, C, r, c, slot) ==
    LET liq == LiqShape(H, W, R, C)
        img == CropShape(H, W, R, C, r, c)
    IN  /\ Broadcastable(img, liq)
        /\ AssignableTo(BroadcastShape(img, liq), slot)

\* sorted(vals)
RECURSIVE SortInts(_)
SortInts(v) ==
    IF v = <<>> THEN <<>>
    ELSE LET k == CHOOSE j \in 1..Len(v) : \A l \in 1..Len(v) : v[j] <= v[l]
         IN  <<v[k]>> \o SortInts(SubSeq(v, 1, k - 1) \o SubSeq(v, k + 1, Len(v)))

\* line 47: np.percentile(vals, q), linear interpolation between the two
\* closest ranks
Percentile(v, q) ==
    LET srt == SortInts(v)
        pos == q * (Len(v) - 1)
        lo == pos \div PerMille
        frac == pos % PerMille
    IN  IF frac = 0 THEN srt[lo + 1]
        ELSE srt[lo + 1] + (frac * (srt[lo + 2] - srt[lo + 1])) \div PerMille

\* a clip that forgets the upper bound
ClipValLowOnly(v, low, high) == Max2(v, low)

\* line 48: np.clip of one value

ClipVal(v, low, high) == Min2(Max2(v, low), high)

SeqMin(v) == CHOOSE x \in {v[k] : k \in 1..Len(v)} : \A j \in 1..Len(v) : x <= v[j]

SeqMax(v) == CHOOSE x \in {v[k] : k \in 1..Len(v)} : \A j \in 1..Len(v) : x >= v[j]

\* line 51-52: exposure.rescale_intensity(in_range='image', out_range=(0, 1))
Rescale01(v) ==
    LET imin == SeqMin(v)
        imax == SeqMax(v)
    IN  IF imin # imax
        THEN [k \in 1..Len(v) |-> ((v[k] - imin) * One) \div (imax - imin)]
        ELSE [k \in 1..Len(v) |-> ClipVal(v[k], 0, One)]

EqLevels == {0, One \div 2, One}

\* line 53-54: what exposure.equalize_adapthist may answer for a stack in
\* [0, 1]. It ends with a rescale of its own to [0, 1]: a stack of more than
\* one intensity comes back spanning 0 and 1; a flat stack has no contrast to
\* spread and comes back flat, at its own level or another one of [0, 1].
Equalized(v) ==
    IF SeqMin(v) # SeqMax(v)
    THEN {w \in [1..Len(v) -> EqLevels] :
              /\ \E k \in 1..Len(v) : w[k] = 0
              /\ \E k \in 1..Len(v) : w[k] = One}
    ELSE {[k \in 1..Len(v) |-> l] : l \in EqLevels \cup {v[1]}}

AlignRet(c, outcome) ==
    [op |-> "align", outcome |-> outcome, shape |-> c.shape, vals |-> c.vals,
     crctd |-> c.crctd, low |-> c.low, high |-> c.high, offs |-> c.offs,
     bounds |-> c.bounds]

\* the call is entered
CallAlign ==
    /\ call = Idle /\ sess.kind = "align" /\ sess.n = 0
    /\ call' = [op |-> "align", pc |-> "max_offset", i |-> 0, R |-> 0, C |-> 0,
                shape |-> <<0, 0, 0>>, vals |-> <<>>, crctd |-> <<>>,
                low |-> 0, high |-> 0, offs |-> <<>>, bounds |-> <<>>]
    /\ sess' = [sess EXCEPT !.n = @ + 1]
    /\ UNCHANGED <<fs, ret, prev>>

\* line 11-26: the offset of the last frame against the first, the allocation
AlignMaxOffset ==
    /\ call.op = "align" /\ call.pc = "max_offset"
    /\ \E r \in Offsets(sess.H), c \in Offsets(sess.W) :
          /\ sess.N = 1 => r = 0 /\ c = 0
          /\ call' = [call EXCEPT !.pc = "loop", !.R = r, !.C = c,
                        !.shape = AllocShape(sess.N, sess.H, sess.W, r, c)]
    /\ UNCHANGED <<fs, sess, ret, prev>>

\* line 29-44: one pass of the loop, frame call.i
AlignFrame ==
    /\ call.op = "align" /\ call.pc = "loop" /\ call.i < sess.N
    /\ \E r \in Offsets(sess.H), c \in Offsets(sess.W) :
          /\ call.i = 0 => r = 0 /\ c = 0
          /\ call.i = sess.N - 1 => r = call.R /\ c = call.C
          /\ LET slot == <<call.shape[2], call.shape[3]>>
                 seen == [call EXCEPT
                            !.offs = Append(@, <<r, c>>),
                            !.bounds = Append(@, CropBounds(sess.H, sess.W,
                                                    call.R, call.C, r, c))]
             IN  IF FrameFits(sess.H, sess.W, call.R, call.C, r, c, slot)
                 THEN /\ \E px \in [1..(slot[1] * slot[2]) -> sess.levels] :
                            /\ call.i = 0 =>
                                  \A k \in 1..(slot[1] * slot[2]) : px[k] = 0
                            /\ call' = [seen EXCEPT !.i = @ + 1,
                                                    !.vals = @ \o px]
                      /\ UNCHANGED <<ret, prev>>
                 ELSE /\ ret' = AlignRet(seen, "ShapeMismatch")
                      /\ prev' = ret
                      /\ call' = Idle
    /\ UNCHANGED <<fs, sess>>

\* line 45-48
AlignClip ==
    /\ call.op = "align" /\ call.pc = "loop" /\ call.i = sess.N
    /\ IF sess.clip # None
       THEN LET low == Percentile(call.vals, sess.clip[1])
                high == Percentile(call.vals, sess.clip[2])
            IN  call' = [call EXCEPT !.pc = "hist_eq", !.crctd = call.vals,
                           !.low = low, !.high = high,
                           !.vals = [k \in 1..Len(call.vals) |->
                                        ClipVal(call.vals[k], low, high)]]
       ELSE call' = [call EXCEPT !.pc = "hist_eq", !.crctd = call.vals]
    /\ UNCHANGED <<fs, sess, ret, prev>>

\* line 49-54
AlignHistEq ==
    /\ call.op = "align" /\ call.pc = "hist_eq"
    /\ IF sess.hist_eq /\ call.vals # <<>>
       THEN \E w \in Equalized(Rescale01(call.vals)) :
               call' = [call EXCEPT !.pc = "return", !.vals = w]
       ELSE call' = [call EXCEPT !.pc = "return"]
    /\ UNCHANGED <<fs, sess, ret, prev>>

\* line 55-56
AlignReturn ==
    /\ call.op = "align" /\ call.pc = "return"
    /\ ret' = AlignRet(call, "ok")
    /\ prev' = ret
    /\ call' = Idle
    /\ UNCHANGED <<fs, sess>>

NextAlign ==
    \/ CallAlign
    \/ AlignMaxOffset
    \/ AlignFrame
    \/ AlignClip
    \/ AlignHistEq
    \/ AlignReturn

DefaultClip == <<1, 999>>

(***************************************************************************)
(* SpecAlign: stacks of up to MaxFrames frames of up to MaxH x MaxW pixels *)
(* whose intensities are not told apart (every difference is 0).           *)
(***************************************************************************)
InitAlign ==
    /\ fs = EmptyFs
    /\ \E N \in 1..MaxFrames, H \in 1..MaxH, W \in 1..MaxW,
          clip \in {None, DefaultClip}, hist_eq \in BOOLEAN :
          sess = [kind |-> "align", n |-> 0, N |-> N, H |-> H, W |-> W,
                  clip |-> clip, hist_eq |-> hist_eq, levels |-> {0}]
    /\ call = Idle
    /\ ret = NoRet
    /\ prev = NoRet

SpecAlign == InitAlign /\ [][NextAlign]_vars

(***************************************************************************)
(* SpecClip: stacks of up to MaxPix frames of one pixel, whose differences *)
(* to the first frame range over -MaxLevel..MaxLevel grey level steps.     *)
(***************************************************************************)
ClipQs == {0, 1, 500, 999, 1000}

InitClip ==
    /\ fs = EmptyFs
    /\ \E N \in 1..MaxPix, hist_eq \in BOOLEAN,
          clip \in {None} \cup (ClipQs \X ClipQs) :
          sess = [kind |-> "align", n |-> 0, N |-> N, H |-> 1, W |-> 1,
                  clip |-> clip, hist_eq |-> hist_eq,
                  levels |-> {l * PerMille : l \in -MaxLevel..MaxLevel}]
    /\ call = Idle
    /\ ret = NoRet
    /\ prev = NoRet

SpecClip == InitClip /\ [][NextAlign]_vars

(***************************************************************************)
(* save_as_gif and save_as_pngs                                            *)
(*                                                                         *)
(* A stack to export is its number of frames n and whether its values lie  *)
(* in the range util.img_as_ubyte accepts. A write (iio.mimsave,           *)
(* iio.imwrite, fig.savefig) is the environment's: it succeeds, or it      *)
(* fails and leaves either nothing or a file cut short.                    *)
(***************************************************************************)
Stack(n, in_range) == [n |-> n, in_range |-> in_range]

\* the last part of a path
Name(path) == path[Len(path)]

WithName(path, name) == SubSeq(path, 1, Len(path) - 1) \o <<name>>

\* line 151-156: the destination of save_as_gif
GifDest(save_path) ==
    IF EndsWith(Name(save_path), DotGif) THEN save_path
    ELSE WithName(save_path, Name(save_path) \o DotGif)

\* the check made on the path as given
GifCheckedRaw(save_path) == save_path

\* line 159: the path whose existence save_as_gif checks

GifChecked(save_path) == GifDest(save_path)

\* line 165-169: whether every frame converts to 8 bits
Converts(stack, equalize_hist) == stack.in_range \/ equalize_hist

WriteOutcomes == {"ok", "fail", "fail_partial"}

GifArgs(save_path, stack, equalize_hist) ==
    [save_path |-> save_path, stack |-> stack, equalize_hist |-> equalize_hist]

ExportRet(op, a, dest, f, outcome, failed_at, n_written) ==
    [op |-> op, args |-> a, dest |-> dest, before |-> f,
     existed |-> Exists(f, dest), outcome |-> outcome,
     failed_at |-> failed_at, n_written |-> n_written]

\* The whole of save_as_gif; written is what iio.mimsave does.
SaveAsGif(a, written) ==
    /\ call = Idle
    /\ LET dest == GifDest(a.save_path)
       IN  IF Exists(fs, GifChecked(a.save_path))
           THEN /\ ret' = ExportRet("save_as_gif", a, dest, fs,
                                    "AlreadyExists", -1, 0)
                /\ fs' = fs
           ELSE IF ~Converts(a.stack, a.equalize_hist)
           THEN /\ ret' = ExportRet("save_as_gif", a, dest, fs,
                                    "ConvertError", -1, 0)
                /\ fs' = fs
           ELSE IF written = "ok"
           THEN /\ ret' = ExportRet("save_as_gif", a, dest, fs, "ok", -1,
                                    a.stack.n)
                /\ fs' = Overlay(fs, dest :> FileEntry("gif", a.stack.n))
           ELSE /\ ret' = ExportRet("save_as_gif", a, dest, fs,
                                    "EncodeError", -1, 0)
                /\ fs' = IF written = "fail_partial"
                         THEN Overlay(fs, dest :> FileEntry("partial", 0))
                         ELSE fs
    /\ prev' = ret
    /\ sess' = [sess EXCEPT !.n = @ + 1]
    /\ UNCHANGED call

\* the refusal left out
PngsRefusesNever(f, save_dir) == FALSE

\* line 184-187: whether save_as_pngs refuses the directory

PngsRefuses(f, save_dir) == IsDir(f, save_dir)

\* the digits of the last index instead of those of the count
NDigitsOfLast(n_imgs) == Len(Str(Max2(n_imgs - 1, 0)))

\* line 190
NDigits(n_imgs) == Len(Str(n_imgs))

\* the file name without the padding
PngNameUnpadded(save_dir, i, n_imgs) ==
    Stem(Name(save_dir)) \o <<"_">> \o Str(i) \o DotPng

\* line 188, 193: the file name of frame i

PngName(save_dir, i, n_imgs) ==
    Stem(Name(save_dir)) \o <<"_">> \o ZFill(Str(i), NDigits(n_imgs)) \o DotPng

\* a loop that swallows the failure and goes on with the next frame
FramesWrittenSkipping(n_imgs, failed_at) ==
    [k \in 1..(IF failed_at < 0 THEN n_imgs ELSE n_imgs - 1) |->
        IF failed_at >= 0 /\ k - 1 >= failed_at THEN k ELSE k - 1]

\* line 192-219: the frames the loop writes in full, in order, when the write
\* of frame failed_at fails (-1: none fails)

FramesWritten(n_imgs, failed_at) ==
    [k \in 1..(IF failed_at < 0 THEN n_imgs ELSE failed_at) |-> k - 1]

\* line 194-219: frame i is drawn on a canvas when either dictionary is given,
\* written as it is otherwise
PngForm(scalebar, timestamp) ==
    IF scalebar \/ timestamp THEN "rendered" ELSE "raw"

\* f after the frames of the sequence order are written one after the other
RECURSIVE WriteFrames(_, _, _, _, _)
WriteFrames(f, save_dir, n_imgs, form, order) ==
    IF order = <<>> THEN f
    ELSE WriteFrames(
            Overlay(f, (save_dir \o <<PngName(save_dir, Head(order), n_imgs)>>)
                           :> FileEntry(form, Head(order))),
            save_dir, n_imgs, form, Tail(order))

PngsArgs(save_dir, stack, scalebar, timestamp) ==
    [save_dir |-> save_dir, stack |-> stack, scalebar |-> scalebar,
     timestamp |-> timestamp]

\* The whole of save_as_pngs; the write of frame failed_at fails (-1: none),
\* leaving a file cut short when partial.
SaveAsPngs(a, failed_at, partial) ==
    /\ call = Idle
    /\ LET dir == a.save_dir
           n_imgs == a.stack.n
           form == PngForm(a.scalebar, a.timestamp)
           made == Overlay(fs, dir :> DirEntry)
           order == FramesWritten(n_imgs, failed_at)
           full == WriteFrames(made, dir, n_imgs, form, order)
       IN  IF PngsRefuses(fs, dir)
           THEN /\ ret' = ExportRet("save_as_pngs", a, dir, fs,
                                    "AlreadyExists", -1, 0)
                /\ fs' = fs
           ELSE IF Exists(fs, dir)
           THEN /\ ret' = ExportRet("save_as_pngs", a, dir, fs,
                                    "FileExistsError", -1, 0)
                /\ fs' = fs
           ELSE IF failed_at >= 0
           THEN /\ ret' = ExportRet("save_as_pngs", a, dir, fs,
                                    "EncodeError", failed_at, Len(order))
                /\ fs' = IF partial
                         THEN Overlay(full,
                                  (dir \o <<PngName(dir, failed_at, n_imgs)>>)
                                      :> FileEntry("partial", failed_at))
                         ELSE full
           ELSE IF n_imgs = 0
           THEN \* line 220: i is unbound when the loop never ran
                /\ ret' = ExportRet("save_as_pngs", a, dir, fs,
                                    "NameError", -1, 0)
                /\ fs' = full
           ELSE /\ ret' = ExportRet("save_as_pngs", a, dir, fs, "ok", -1,
                                    Len(order))
                /\ fs' = full
    /\ prev' = ret
    /\ sess' = [sess EXCEPT !.n = @ + 1]
    /\ UNCHANGED call

\* the user removes path p and what is below it
RemoveDest(p) ==
    /\ call = Idle
    /\ Exists(fs, p)
    /\ fs' = [q \in {x \in DOMAIN fs :
                        ~(Len(x) >= Len(p) /\ SubSeq(x, 1, Len(p)) = p)} |-> fs[q]]
    /\ ret' = [op |-> "remove", outcome |-> "ok"]
    /\ prev' = ret
    /\ sess' = [sess EXCEPT !.n = @ + 1]
    /\ UNCHANGED call

(***************************************************************************)
(* SpecExport: one export, given by the session, made up to MaxCalls times *)
(* on a file system that starts empty or with something in the way; in     *)
(* between the user may remove the destination or load it with get_imgs.   *)
(***************************************************************************)
MaxCalls == 3

PathA == <<<<"a">>>>

PathAGif == <<<<"a">> \o DotGif>>

Dests == {PathA, PathAGif}

StartFs ==
    {EmptyFs,
     PathAGif :> FileEntry("gif", 1),
     PathA :> FileEntry("gif", 1),
     PathAGif :> DirEntry}

InitExport ==
    /\ fs \in StartFs
    /\ \/ \E p \in Dests, n \in 1..MaxSmallStack, r \in BOOLEAN, e \in BOOLEAN :
             sess = [kind |-> "save_as_gif", n |-> 0,
                     args |-> GifArgs(p, Stack(n, r), e)]
       \/ \E p \in Dests, n \in 0..MaxStack, sb \in BOOLEAN, ts \in BOOLEAN :
             sess = [kind |-> "save_as_pngs", n |-> 0,
                     args |-> PngsArgs(p, Stack(n, TRUE), sb, ts)]
    /\ call = Idle
    /\ ret = NoRet
    /\ prev = NoRet

SessDest ==
    IF sess.kind = "save_as_gif" THEN GifDest(sess.args.save_path)
    ELSE sess.args.save_dir

ExportGif ==
    /\ sess.kind = "save_as_gif" /\ sess.n < MaxCalls
    /\ \E written \in WriteOutcomes : SaveAsGif(sess.args, written)

ExportPngs ==
    /\ sess.kind = "save_as_pngs" /\ sess.n < MaxCalls
    /\ \E failed_at \in -1..(sess.args.stack.n - 1), partial \in BOOLEAN :
          /\ failed_at < 0 => ~partial
          /\ SaveAsPngs(sess.args, failed_at, partial)

LoadBack ==
    /\ sess.kind = "save_as_pngs" /\ sess.n < MaxCalls
    /\ \E sfx \in {Png, DotPng} :
          CallGetImgs(GetImgsArgs(SessDest, None, None, None, None, sfx))

Remove ==
    /\ sess.kind \in {"save_as_gif", "save_as_pngs"} /\ sess.n < MaxCalls
    /\ RemoveDest(SessDest)

NextExport ==
    \/ ExportGif
    \/ ExportPngs
    \/ LoadBack
    \/ GetImgsCheck
    \/ GetImgsLoad
    \/ Remove

SpecExport == InitExport /\ [][NextExport]_vars

(***************************************************************************)
(* Claims about get_imgs (SpecLoad).                                       *)
(***************************************************************************)
\* the number of files of the directory get_imgs is called on
NumFiles == Cardinality(Listing(fs, LoadDir))

Returned == ret.op = "get_imgs" /\ ret.outcome = "ok"

AllDecodable ==
    \A n \in Listing(fs, LoadDir) : Decodes(fs[LoadDir \o <<n>>])

\* the integer nearest to d / n, the even one of the two when d / n lies
\* half way
NearestEven(d, n) ==
    CHOOSE r \in -(Abs(d) + 1)..(Abs(d) + 1) :
        /\ 2 * Abs(n * r - d) <= Abs(n)
        /\ (2 * Abs(n * r - d) = Abs(n) => r % 2 = 0)

ClaimStart(a) == IF a.img_start = None THEN 0 ELSE Val(a.img_start)

ClaimStop(a) == IF a.img_stop = None THEN NumFiles ELSE Val(a.img_stop)

ClaimStep(a) ==
    IF a.n_imgs # None THEN NearestEven(ClaimStop(a) - ClaimStart(a), Val(a.n_imgs))
    ELSE IF a.img_step # None THEN Val(a.img_step) ELSE 1

\* the indices start, start + step, ... strictly below stop
Below(start, stop, step) ==
    {x \in {start + k * step : k \in 0..(2 * MaxFiles + 4)} : x < stop}

\* the indices start, start + step, ... strictly before stop in the direction
\* of step
Before(start, stop, step) ==
    {x \in {start + k * step : k \in 0..(2 * MaxFiles + 4)} :
        IF step > 0 THEN x < stop ELSE x > stop}

\* the file a (possibly negative) index selects among F sorted files
FileOf(x, F) == IF x < 0 THEN F + x ELSE x

C2_NotFoundFirst ==
    /\ (call.op = "get_imgs" /\ call.pc = "load") => IsDir(fs, call.args.dir)
    /\ ret.op = "get_imgs" =>
        /\ ~IsDir(fs, ret.args.dir) =>
              ret.outcome = "NotFound" /\ ~ret.globbed /\ ret.ndecoded = 0
        /\ ret.outcome = "NotFound" => ~IsDir(fs, ret.args.dir)
        /\ ret.outcome # "ok" => ret.stack = <<>>
        /\ ret.outcome = "ok" =>
              /\ ret.stack # <<>>
              /\ \A k \in 1..Len(ret.stack) : Decodes(ret.stack[k])

\* a call on a missing directory has failed
C2_Witness ==
    /\ ret.op = "get_imgs" /\ ret.outcome = "NotFound"
    /\ ~Exists(fs, LoadDir)

(***************************************************************************)
(* Claims about align_and_sub_liq (SpecAlign, SpecClip).                   *)
(***************************************************************************)
AlignReturned == ret.op = "align" /\ ret.outcome = "ok"

\* the offset estimated between the first and the last input frame
LastOffset == ret.offs[sess.N]

\* C3: whenever align_and_sub_liq returns, the stack it returns has shape
\* (N, H - |dr|, W - |dc|) for the offset (dr, dc) of the last frame against
\* the first, whatever clip and hist_eq_clip_lim are.
C3_OutputShape ==
    AlignReturned =>
        /\ Len(ret.offs) = sess.N
        /\ ret.shape = <<sess.N, sess.H - Abs(LastOffset[1]),
                         sess.W - Abs(LastOffset[2])>>
        /\ Len(ret.vals) = ret.shape[1] * ret.shape[2] * ret.shape[3]

\* a returned call with clipping and equalization on, cropped by a last frame
\* that moved up
C3_Witness ==
    /\ AlignReturned /\ sess.clip # None /\ sess.hist_eq
    /\ sess.N = 3 /\ LastOffset[1] < 0
    /\ ret.shape[2] = sess.H - 1

\* the k-th smallest of the values of v
KthSmallest(v, k) ==
    CHOOSE x \in {v[j] : j \in 1..Len(v)} :
        /\ Cardinality({j \in 1..Len(v) : v[j] < x}) < k
        /\ k <= Cardinality({j \in 1..Len(v) : v[j] <= x})

\* PerMille times the q-th percentile of v: the value at rank q (n - 1) / 1000
\* counted from 0, between two ranks in proportion
ScaledPercentile(v, q) ==
    LET pos == q * (Len(v) - 1)
        lo == pos \div PerMille
        a == KthSmallest(v, lo + 1)
        b == KthSmallest(v, Min2(lo + 2, Len(v)))
    IN  PerMille * a + (pos % PerMille) * (b - a)

WithinPercentiles ==
    \A k \in 1..Len(ret.vals) :
        /\ PerMille * ret.vals[k] >= ScaledPercentile(ret.crctd, sess.clip[1])
        /\ PerMille * ret.vals[k] <= ScaledPercentile(ret.crctd, sess.clip[2])

ClipRangeGiven == sess.clip # None /\ sess.clip[1] <= sess.clip[2]

\* C4 as stated: with a clip range [p_lo, p_hi], equalization on or off, no
\* value of the returned stack is below the p_lo or above the p_hi percentile
\* of the corrected stack before clipping.
C4_Original == (AlignReturned /\ ClipRangeGiven) => WithinPercentiles

\* C4 as amended: with a clip range [p_lo, p_hi], p_lo <= p_hi, and
\* equalization off (hist_eq_clip_lim zero), no value of the returned stack is
\* below the p_lo or above the p_hi percentile of the corrected stack before
\* clipping; with equalization on the returned values lie in [0, 1].
C4_ClipBounds ==
    /\ (AlignReturned /\ ClipRangeGiven /\ ~sess.hist_eq) => WithinPercentiles
    /\ (AlignReturned /\ sess.hist_eq) =>
           \A k \in 1..Len(ret.vals) : 0 <= ret.vals[k] /\ ret.vals[k] <= One

\* a returned call without equalization whose clip raised one value and
\* lowered another
C4_Witness ==
    /\ AlignReturned /\ ClipRangeGiven /\ ~sess.hist_eq
    /\ \E k \in 1..Len(ret.vals) : ret.vals[k] > ret.crctd[k]
    /\ \E k \in 1..Len(ret.vals) : ret.vals[k] < ret.crctd[k]

\* the crops asked of the frames handled so far
CropsSoFar == IF call.op = "align" THEN call.bounds
              ELSE IF ret.op = "align" THEN ret.bounds ELSE <<>>

\* C9: for every frame the region cropped, rows |r_i| up to H - (|R| - |r_i|)
\* and columns |c_i| up to W - (|C| - |c_i|), lies within the H x W frame and
\* has the size of the reference crop, so the subtraction and the store never
\* fail with a shape mismatch.
C9_CropFits ==
    /\ ret.op = "align" => ret.outcome # "ShapeMismatch"
    /\ \A k \in 1..Len(CropsSoFar) :
          LET b == CropsSoFar[k]
          IN  /\ 0 <= b[1] /\ b[1] <= b[2] /\ b[2] <= sess.H
              /\ 0 <= b[3] /\ b[3] <= b[4] /\ b[4] <= sess.W

(***************************************************************************)
(* Claims about save_as_gif and save_as_pngs (SpecExport).                 *)
(***************************************************************************)
IsExport(r) == r.op \in {"save_as_gif", "save_as_pngs"}

\* the last two calls are the same export with the same arguments, nothing
\* was removed in between, and the destination did not exist before the first
Twice ==
    /\ IsExport(ret) /\ prev.op = ret.op
    /\ prev.args = ret.args
    /\ ~prev.existed

\* C5 as stated: a second call with the same arguments, the destination not
\* removed in between, fails with AlreadyExists, for both exports and every
\* stack.
C5_Original == Twice => ret.outcome = "AlreadyExists"

\* C5 as amended: the second call fails with AlreadyExists for save_as_pngs
\* always, also when the first call raised after creating the directory, and
\* for save_as_gif exactly when the first call left a file at the destination,
\* as it does when it returns; after a first save_as_gif that raised on
\* converting the frames the second call raises the same conversion error.
C5_SecondCallRefused ==
    /\ (Twice /\ ret.op = "save_as_pngs") => ret.outcome = "AlreadyExists"
    /\ (Twice /\ ret.op = "save_as_gif") =>
        /\ prev.outcome = "ok" => ret.outcome = "AlreadyExists"
        /\ ret.outcome = "AlreadyExists" <=> Exists(ret.before, ret.dest)
        /\ prev.outcome = "ConvertError" => ret.outcome = "ConvertError"

\* a second save_as_pngs refused after a first that failed on a frame
C5_Witness ==
    /\ Twice /\ ret.op = "save_as_pngs"
    /\ prev.outcome = "EncodeError" /\ prev.failed_at = 1
    /\ ret.outcome = "AlreadyExists"

\* the get_imgs call that has returned or raised loaded, with the png suffix
\* and the default selection, the directory that the export before it
\* created and filled without annotation
RoundTrip ==
    /\ ret.op = "get_imgs" /\ prev.op = "save_as_pngs"
    /\ prev.outcome = "ok" /\ ~prev.existed
    /\ ~prev.args.scalebar /\ ~prev.args.timestamp
    /\ ret.args.dir = prev.args.save_dir

\* C6: loading a directory that save_as_pngs filled with N >= 1 frames without
\* annotation returns exactly N frames, frame k what was written for frame k.
C6_RoundTrip ==
    RoundTrip =>
        /\ ret.outcome = "ok"
        /\ Len(ret.stack) = prev.args.stack.n
        /\ \A k \in 1..Len(ret.stack) : ret.stack[k] = FileEntry("raw", k - 1)

\* eleven frames exported and loaded back
C6_Witness ==
    /\ RoundTrip /\ prev.args.stack.n = 11
    /\ ret.outcome = "ok" /\ ret.stack[11] = FileEntry("raw", 10)

\* C7: save_as_gif writes to the path with .gif appended unless it ends in
\* .gif already, checks that path, fails with AlreadyExists when it exists,
\* changing no file, and changes or removes no existing file in any case;
\* when it returns, the destination is the only file created.
C7_NoOverwrite ==
    ret.op = "save_as_gif" =>
        LET given == ret.args.save_path
            dest == ret.dest
        IN  /\ EndsWith(Name(dest), DotGif)
            /\ IF EndsWith(Name(given), DotGif) THEN dest = given
               ELSE dest = WithName(given, Name(given) \o DotGif)
            /\ Exists(ret.before, dest) =>
                  ret.outcome = "AlreadyExists" /\ fs = ret.before
            /\ ret.outcome = "AlreadyExists" => Exists(ret.before, dest)
            /\ \A q \in DOMAIN ret.before :
                  q \in DOMAIN fs /\ fs[q] = ret.before[q]
            /\ DOMAIN fs \subseteq DOMAIN ret.before \cup {dest}
            /\ ret.outcome = "ok" =>
                  /\ DOMAIN fs = DOMAIN ret.before \cup {dest}
                  /\ fs[dest] = FileEntry("gif", ret.args.stack.n)

\* save_as_gif("a") refused because a.gif is there
C7_Witness ==
    /\ ret.op = "save_as_gif" /\ ret.args.save_path = PathA
    /\ ret.dest = PathAGif /\ ret.outcome = "AlreadyExists"
    /\ ~Exists(fs, PathA) /\ fs = ret.before

Pow10(d) == IF d = 0 THEN 1 ELSE IF d = 1 THEN 10 ELSE IF d = 2 THEN 100 ELSE 1000

\* the number of decimal digits of n
DigitsOf(n) == CHOOSE d \in 1..3 : n < Pow10(d) /\ (d = 1 \/ Pow10(d - 1) <= n)

DigitVal(c) == (CHOOSE k \in 1..10 : DigitChars[k] = c) - 1

RECURSIVE DecValue(_)
DecValue(str) ==
    IF str = <<>> THEN 0
    ELSE 10 * DecValue(SubSeq(str, 1, Len(str) - 1)) + DigitVal(str[Len(str)])

\* name is <prefix>_<index>.png, the index being i written in `width` digits
NamesFrame(name, prefix, i, width) ==
    /\ Len(name) = Len(prefix) + 1 + width + 4
    /\ SubSeq(name, 1, Len(prefix)) = prefix
    /\ name[Len(prefix) + 1] = "_"
    /\ LET index == SubSeq(name, Len(prefix) + 2, Len(prefix) + 1 + width)
       IN  /\ \A k \in 1..width : \E d \in 1..10 : index[k] = DigitChars[d]
           /\ DecValue(index) = i
    /\ EndsWith(name, DotPng)

\* the final component without its last suffix
StemOf(name) ==
    IF \E k \in 2..(Len(name) - 1) :
           name[k] = "." /\ \A j \in (k + 1)..Len(name) : name[j] # "."
    THEN SubSeq(name, 1, (CHOOSE k \in 2..(Len(name) - 1) :
             name[k] = "." /\ \A j \in (k + 1)..Len(name) : name[j] # ".") - 1)
    ELSE name

PngsWrote == ret.op = "save_as_pngs" /\ ret.outcome \in {"ok", "EncodeError"}

\* the complete frame files of the directory of the last save_as_pngs
FrameFiles ==
    {n \in Listing(fs, ret.dest) : fs[ret.dest \o <<n>>].form # "partial"}

\* every frame written is in a file named from prefix and the frame's index
\* in the digits of the frame count, the names are as long as each other and
\* differ, and no frame's file was written over
NamedBy(prefix) ==
    LET N == ret.args.stack.n
        form == IF ret.args.scalebar \/ ret.args.timestamp
                THEN "rendered" ELSE "raw"
    IN  /\ \A i \in 0..(ret.n_written - 1) :
              \E n \in FrameFiles :
                  /\ NamesFrame(n, prefix, i, DigitsOf(N))
                  /\ fs[ret.dest \o <<n>>] = FileEntry(form, i)
        /\ \A n, m \in FrameFiles : Len(n) = Len(m)
        /\ Cardinality(FrameFiles) = ret.n_written

\* C8 as stated: frame i goes to <directory-basename>_<index>.png, the index
\* padded to the digits of N; the names have one length, differ, and no frame
\* overwrites another's file.
C8_Original == PngsWrote => NamedBy(Name(ret.dest))

\* C8 as amended: frame i goes to <directory-stem>_<index>.png, the stem being
\* the directory's name without its last suffix and the index padded to the
\* digits of N; the names have one length, differ, and no frame overwrites
\* another's file.
C8_FileNames == PngsWrote => NamedBy(StemOf(Name(ret.dest)))

\* ten frames written to the directory a.gif as a_00.png ... a_09.png
C8_Witness ==
    /\ PngsWrote /\ ret.outcome = "ok" /\ ret.args.stack.n = 10
    /\ ret.dest = PathAGif
    /\ Exists(fs, PathAGif \o <<<<"a", "_", "0", "9">> \o DotPng>>)

PngsFailed == ret.op = "save_as_pngs" /\ ret.outcome = "EncodeError"

\* C10 as stated: when the write of frame k fails the call raises at once,
\* no later frame is written, and the directory is left holding exactly the
\* files of frames 0..k-1.
C10_Original ==
    PngsFailed =>
        /\ IsDir(fs, ret.dest)
        /\ ret.n_written = ret.failed_at
        /\ NamedBy(StemOf(Name(ret.dest)))
        /\ Cardinality(Listing(fs, ret.dest)) = ret.failed_at

\* C10 as amended: when the write of frame k fails the call raises at once,
\* no later frame is written, and the directory is left holding the files of
\* frames 0..k-1 and at most one more, what the failed write left of frame
\* k's file.
C10_PartialOutput ==
    PngsFailed =>
        /\ IsDir(fs, ret.dest)
        /\ ret.n_written = ret.failed_at
        /\ NamedBy(StemOf(Name(ret.dest)))
        /\ \A n \in Listing(fs, ret.dest) \ FrameFiles :
              /\ fs[ret.dest \o <<n>>] = FileEntry("partial", ret.failed_at)
              /\ NamesFrame(n, StemOf(Name(ret.dest)), ret.failed_at,
                            DigitsOf(ret.args.stack.n))
        /\ Cardinality(Listing(fs, ret.dest)) \in
              {ret.failed_at, ret.failed_at + 1}

\* the write of frame 2 of 5 failed and left nothing: two files
C10_Witness ==
    /\ PngsFailed /\ ret.args.stack.n = 5 /\ ret.failed_at = 2
    /\ Cardinality(Listing(fs, ret.dest)) = 2

====
